---- MODULE Spec2Model ----
EXTENDS Integers, Sequences, FiniteSets, TLC

(***************************************************************************)
(* RingHeap (src/src/lib.rs): a binary min-heap stored in a ring buffer.   *)
(* The storage `data` is a Vec whose length is the ring capacity.  It is   *)
(* modelled as a function on 0..n-1 (physical offsets).                    *)
(***************************************************************************)

\* ---- bounds -------------------------------------------------------------
MaxCap == 8
MaxVal == 2
MaxOps == 10

\* ---- program constants ---------------------------------------------------
UsizeBits == 64

Values == 1..MaxVal
None == <<>>
Some(v) == <<v>>

VARIABLES build, data, start, end, len, viol, op, ret, live, mode, ins, outs, nops,
          twinned, twin, fill

vars == <<build, data, start, end, len, viol, op, ret, live, mode, ins, outs, nops,
          twinned, twin, fill>>

\* The heap as one value; viol records the first internal contract
\* violation met while an operation runs, ret the Option a call returns,
\* swaps the number of Vec::swap calls the operation made.
Self == [data |-> data, start |-> start, end |-> end, len |-> len,
         viol |-> "none", ret |-> None, swaps |-> 0]

note(h, v) == IF h.viol = "none" THEN [h EXCEPT !.viol = v] ELSE h

\* self.data.len()
data_len(h) == Cardinality(DOMAIN h.data)

\* Vec::swap on physical offsets
data_swap(d, a, b) == [d EXCEPT ![a] = d[b], ![b] = d[a]]

real_idx(h, i) == (h.start + i) % data_len(h)

parent_idx(i) == (i - 1) \div 2

left_child_idx(i) == 1 + 2 * i

right_child_idx(i) == 2 + 2 * i

swap(h, i, j) ==
    [h EXCEPT !.data = data_swap(h.data, real_idx(h, i), real_idx(h, j)),
              !.swaps = @ + 1]

\* get without the debug assertion; get_ok is the assertion
get(h, i) == h.data[real_idx(h, i)]

get_ok(h, i) == i < h.len

\* 2^k mod m, for the indices a wrapped usize subtraction produces
RECURSIVE Pow2Mod(_, _)
Pow2Mod(k, m) == IF k = 0 THEN 1 % m ELSE (2 * Pow2Mod(k - 1, m)) % m

\* real_idx of the logical index 2^k - 1 (no overflow: start + 2^k - 1 < 2^64)
real_idx_wide(h, k) ==
    LET n == data_len(h)
    IN  (h.start + ((Pow2Mod(k, n) + n - 1) % n)) % n

\* heapify_up in a build without overflow checks and debug assertions, at
\* the logical index 2^k - 1.  parent_idx(2^k - 1) = 2^(k-1) - 1, and
\* parent_idx(0) wraps to (2^64 - 1) / 2 = 2^63 - 1.
RECURSIVE heapify_up_wide(_, _)
heapify_up_wide(h, k) ==
    IF k <= 30 /\ 2 ^ k - 1 = h.start THEN h
    ELSE LET pk == IF k = 0 THEN UsizeBits - 1 ELSE k - 1
             h1 == IF k = 0 THEN note(h, "underflow") ELSE note(h, "assert")
             ri == real_idx_wide(h, k)
             rp == real_idx_wide(h, pk)
         IN  IF h.data[rp] > h.data[ri]
             THEN heapify_up_wide([h1 EXCEPT !.data = data_swap(h.data, ri, rp),
                                         !.swaps = @ + 1], pk)
             ELSE h1

\* heapify_up that swaps with the parent once and does not go on from there
heapify_up_once(h, i) ==
    IF i = h.start THEN h
    ELSE IF i = 0
    THEN IF build = "debug" THEN note(h, "underflow")
         ELSE heapify_up_wide(h, 0)
    ELSE LET p == parent_idx(i)
             ok == get_ok(h, p) /\ get_ok(h, i)
             h1 == IF ok THEN h ELSE note(h, "assert")
         IN  IF ~ok /\ build = "debug" THEN h1
             ELSE IF get(h, p) > get(h, i)
             THEN swap(h1, i, p)
             ELSE h1

RECURSIVE heapify_up(_, _)
heapify_up(h, i) ==
    IF i = h.start THEN h
    ELSE IF i = 0
    THEN IF build = "debug" THEN note(h, "underflow")
         ELSE heapify_up_wide(h, 0)
    ELSE LET p == parent_idx(i)
             ok == get_ok(h, p) /\ get_ok(h, i)
             h1 == IF ok THEN h ELSE note(h, "assert")
         IN  IF ~ok /\ build = "debug" THEN h1
             ELSE IF get(h, p) > get(h, i)
             THEN heapify_up(swap(h1, i, p), p)
             ELSE h1

\* heapify_down whose bounds tests are off by one (> for >=), so a child at
\* logical index len counts as existing
RECURSIVE heapify_down_past_len(_, _)
heapify_down_past_len(h, i) ==
    LET l == left_child_idx(i)
        r == right_child_idx(i)
    IN  IF i > h.len \/ l > h.len THEN h
        ELSE LET left_val == get(h, l)
                 this_val == get(h, i)
             IN  IF r > h.len
                 THEN IF this_val > left_val
                      THEN heapify_down_past_len(swap(h, i, l), l)
                      ELSE h
                 ELSE LET right_val == get(h, r)
                      IN  IF left_val > right_val /\ this_val > right_val
                          THEN heapify_down_past_len(swap(h, i, r), r)
                          ELSE IF right_val > left_val /\ this_val > left_val
                          THEN heapify_down_past_len(swap(h, i, l), l)
                          ELSE h

\* heapify_down that also swaps with the left child when the children are
\* equal and both smaller than the current element
RECURSIVE heapify_down_tie_left(_, _)
heapify_down_tie_left(h, i) ==
    LET l == left_child_idx(i)
        r == right_child_idx(i)
    IN  IF i > h.len \/ l >= h.len THEN h
        ELSE LET left_val == get(h, l)
                 this_val == get(h, i)
             IN  IF r >= h.len
                 THEN IF this_val > left_val
                      THEN heapify_down_tie_left(swap(h, i, l), l)
                      ELSE h
                 ELSE LET right_val == get(h, r)
                      IN  IF left_val > right_val /\ this_val > right_val
                          THEN heapify_down_tie_left(swap(h, i, r), r)
                          ELSE IF this_val > left_val
                          THEN heapify_down_tie_left(swap(h, i, l), l)
                          ELSE h

RECURSIVE heapify_down(_, _)
heapify_down(h, i) ==
    LET l == left_child_idx(i)
        r == right_child_idx(i)
    IN  IF i > h.len \/ l >= h.len THEN h
        ELSE LET left_val == get(h, l)
                 this_val == get(h, i)
             IN  IF r >= h.len
                 THEN IF this_val > left_val
                      THEN heapify_down(swap(h, i, l), l)
                      ELSE h
                 ELSE LET right_val == get(h, r)
                      IN  IF left_val > right_val /\ this_val > right_val
                          THEN heapify_down(swap(h, i, r), r)
                          ELSE IF right_val > left_val /\ this_val > left_val
                          THEN heapify_down(swap(h, i, l), l)
                          ELSE h

\* grow with the new length computed as old_len + 2 instead of doubling
grow_by_two(h, x) ==
    LET old_len == data_len(h)
        new_len == old_len + 2
        resized == [p \in 0..(new_len - 1) |->
                        IF p < old_len THEN h.data[p] ELSE x]
    IN  IF h.start > h.end
        THEN LET n_to_move == old_len - h.start
                 new_start == new_len - n_to_move
             IN  [h EXCEPT
                    !.data = [p \in 0..(new_len - 1) |->
                                IF p >= new_start /\ p < new_start + n_to_move
                                THEN resized[h.start + (p - new_start)]
                                ELSE resized[p]],
                    !.start = new_start]
        ELSE [h EXCEPT !.data = resized]

\* grow that relocates the wrapped tail but leaves start where it was
grow_keeps_start(h, x) ==
    LET old_len == data_len(h)
        new_len == IF 2 * old_len > 2 THEN 2 * old_len ELSE 2
        resized == [p \in 0..(new_len - 1) |->
                        IF p < old_len THEN h.data[p] ELSE x]
    IN  IF h.start > h.end
        THEN LET n_to_move == old_len - h.start
                 new_start == new_len - n_to_move
             IN  [h EXCEPT
                    !.data = [p \in 0..(new_len - 1) |->
                                IF p >= new_start /\ p < new_start + n_to_move
                                THEN resized[h.start + (p - new_start)]
                                ELSE resized[p]]]
        ELSE [h EXCEPT !.data = resized]

grow(h, x) ==
    LET old_len == data_len(h)
        new_len == IF 2 * old_len > 2 THEN 2 * old_len ELSE 2
        resized == [p \in 0..(new_len - 1) |->
                        IF p < old_len THEN h.data[p] ELSE x]
    IN  IF h.start > h.end
        THEN LET n_to_move == old_len - h.start
                 new_start == new_len - n_to_move
             IN  [h EXCEPT
                    !.data = [p \in 0..(new_len - 1) |->
                                IF p >= new_start /\ p < new_start + n_to_move
                                THEN resized[h.start + (p - new_start)]
                                ELSE resized[p]],
                    !.start = new_start]
        ELSE [h EXCEPT !.data = resized]

\* push that grows only when len + 1 > data.len() (> for >=)
push_late_grow(h, x) ==
    LET g == IF h.len + 1 > data_len(h) THEN grow(h, x) ELSE h
    IN  IF g.end \notin DOMAIN g.data THEN note(g, "oob")
        ELSE [g EXCEPT !.data = [g.data EXCEPT ![g.end] = x],
                       !.end = (g.end + 1) % data_len(g),
                       !.len = g.len + 1]

\* push that advances end without wrapping it modulo data.len()
push_no_wrap(h, x) ==
    LET g == IF h.len + 1 >= data_len(h) THEN grow(h, x) ELSE h
    IN  IF g.end \notin DOMAIN g.data THEN note(g, "oob")
        ELSE [g EXCEPT !.data = [g.data EXCEPT ![g.end] = x],
                       !.end = g.end + 1,
                       !.len = g.len + 1]

push(h, x) ==
    LET g == IF h.len + 1 >= data_len(h) THEN grow(h, x) ELSE h
    IN  IF g.end \notin DOMAIN g.data THEN note(g, "oob")
        ELSE [g EXCEPT !.data = [g.data EXCEPT ![g.end] = x],
                       !.end = (g.end + 1) % data_len(g),
                       !.len = g.len + 1]

insert(h, x) ==
    LET h1 == push(h, x)
    IN  IF h1.viol # "none" THEN h1
        ELSE LET idx == IF h1.end = 0 THEN data_len(h1) - 1 ELSE h1.end - 1
             IN  heapify_up(h1, idx)

\* pop guarded by !data.is_empty() instead of len > 0
pop_storage_guard(h) ==
    IF data_len(h) > 0
    THEN IF h.start \notin DOMAIN h.data THEN note(h, "oob")
         ELSE LET x == h.data[h.start]
                  h1 == [h EXCEPT !.start = (h.start + 1) % data_len(h),
                                  !.len = IF h.len > 0 THEN h.len - 1 ELSE 0]
              IN  [heapify_down(h1, 0) EXCEPT !.ret = Some(x)]
    ELSE [h EXCEPT !.ret = None]

\* the classic array-heap pop: the last element is moved into the root slot
\* and end steps back, start stays
pop_move_last(h) ==
    IF h.len > 0
    THEN IF h.start \notin DOMAIN h.data THEN note(h, "oob")
         ELSE LET x == h.data[h.start]
                  last == (h.end + data_len(h) - 1) % data_len(h)
                  h1 == [h EXCEPT !.data = [h.data EXCEPT ![h.start] = h.data[last]],
                                  !.end = last,
                                  !.len = h.len - 1]
              IN  [heapify_down(h1, 0) EXCEPT !.ret = Some(x)]
    ELSE [h EXCEPT !.ret = None]

pop(h) ==
    IF h.len > 0
    THEN IF h.start \notin DOMAIN h.data THEN note(h, "oob")
         ELSE LET x == h.data[h.start]
                  h1 == [h EXCEPT !.start = (h.start + 1) % data_len(h),
                                  !.len = h.len - 1]
              IN  [heapify_down(h1, 0) EXCEPT !.ret = Some(x)]
    ELSE [h EXCEPT !.ret = None]

\* peek that reads physical slot 0 instead of slot start
peek_slot_zero(h) ==
    IF h.len > 0
    THEN IF 0 \notin DOMAIN h.data THEN note(h, "oob")
         ELSE [h EXCEPT !.ret = Some(h.data[0])]
    ELSE [h EXCEPT !.ret = None]

peek(h) ==
    IF h.len > 0
    THEN IF h.start \notin DOMAIN h.data THEN note(h, "oob")
         ELSE [h EXCEPT !.ret = Some(h.data[h.start])]
    ELSE [h EXCEPT !.ret = None]

\* clear that forgets to reset end
clear_keeps_end(h) == [h EXCEPT !.start = 0, !.len = 0]

clear(h) == [h EXCEPT !.start = 0, !.end = 0, !.len = 0]

\* ---- bookkeeping used to state the properties ---------------------------
\* a panic ends the run: an out-of-bounds access in every build, a failed
\* debug assertion or arithmetic overflow in a debug build
panicked == viol = "oob" \/ (build = "debug" /\ viol # "none")

EmptyBag == [v \in Values |-> 0]
BagAdd(b, v) == [b EXCEPT ![v] = @ + 1]
BagDel(b, v) == [b EXCEPT ![v] = IF @ > 0 THEN @ - 1 ELSE 0]

RECURSIVE SortedInsert(_, _)
SortedInsert(s, v) ==
    IF s = <<>> THEN <<v>>
    ELSE IF v <= Head(s) THEN <<v>> \o s
    ELSE <<Head(s)>> \o SortedInsert(Tail(s), v)

\* ---- the state machine ---------------------------------------------------
\* new() / with_capacity(cap): Vec::with_capacity allocates but leaves the
\* Vec empty, so data.len() is 0 whatever cap is.
Init ==
    /\ build \in {"debug", "release"}
    /\ data = <<>>
    /\ start = 0
    /\ end = 0
    /\ len = 0
    /\ viol = "none"
    /\ op = "new"
    /\ ret = None
    /\ live = EmptyBag
    /\ mode = "ins"
    /\ ins = <<>>
    /\ outs = <<>>
    /\ nops = 0
    /\ twinned = FALSE
    /\ twin = Self
    /\ fill = TRUE

Apply(r) ==
    /\ data' = r.data
    /\ start' = r.start
    /\ end' = r.end
    /\ len' = r.len
    /\ viol' = r.viol
    /\ ret' = r.ret
    /\ nops' = IF nops < MaxOps THEN nops + 1 ELSE nops
    /\ UNCHANGED build

InsertStep(x) ==
    /\ ~panicked
    /\ (len + 1 >= data_len(Self)) => 2 * data_len(Self) <= MaxCap
    /\ Apply(insert(Self, x))
    /\ op' = "insert"
    /\ live' = BagAdd(live, x)
    /\ mode' = IF mode = "ins" THEN "ins" ELSE "mixed"
    /\ ins' = IF mode = "ins" THEN SortedInsert(ins, x) ELSE <<>>
    /\ outs' = <<>>
    /\ UNCHANGED fill

PopStep ==
    /\ ~panicked
    /\ LET r == pop(Self)
       IN  /\ Apply(r)
           /\ live' = IF r.ret = None THEN live ELSE BagDel(live, r.ret[1])
           /\ mode' = IF mode \in {"ins", "drain"} THEN "drain" ELSE "mixed"
           /\ outs' = IF mode \in {"ins", "drain"} /\ r.ret # None
                      THEN Append(outs, r.ret[1]) ELSE outs
    /\ op' = "pop"
    /\ UNCHANGED ins
    /\ fill' = FALSE

PeekStep ==
    /\ ~panicked
    /\ Apply(peek(Self))
    /\ op' = "peek"
    /\ UNCHANGED <<live, mode, ins, outs>>
    /\ UNCHANGED fill

ClearStep ==
    /\ ~panicked
    /\ Apply(clear(Self))
    /\ op' = "clear"
    /\ live' = EmptyBag
    /\ mode' = "mixed"
    /\ ins' = <<>>
    /\ outs' = <<>>
    /\ fill' = TRUE

\* the run is cut after MaxOps operations
Budget == nops < MaxOps

NoTwin == UNCHANGED <<twinned, twin>>

Insert(x) == Budget /\ InsertStep(x) /\ NoTwin

Pop == Budget /\ PopStep /\ NoTwin

Peek == Budget /\ PeekStep /\ NoTwin

Clear == Budget /\ ClearStep /\ NoTwin

Next ==
    \/ \E x \in Values : Insert(x)
    \/ Pop
    \/ Peek
    \/ Clear

Spec == Init /\ [][Next]_vars

\* ---- inserts only, then pops only, on a freshly constructed heap --------
DrainInsert(x) == mode = "ins" /\ InsertStep(x) /\ NoTwin

DrainPop == mode \in {"ins", "drain"} /\ PopStep /\ NoTwin

NextDrain ==
    \/ \E x \in Values : DrainInsert(x)
    \/ DrainPop

SpecDrain == Init /\ [][NextDrain]_vars

\* ---- a second heap run in lockstep from each clear ----------------------
\* At clear() the twin becomes an empty heap of the same capacity whose
\* storage holds f in every slot (the state insert(f)...; clear() leaves);
\* every later call is made on both heaps.
twin_panicked(t) == t.viol = "oob" \/ (build = "debug" /\ t.viol # "none")

Call(t) == [t EXCEPT !.viol = "none", !.ret = None, !.swaps = 0]

TwinInsert(x) ==
    /\ Budget /\ InsertStep(x)
    /\ twin' = IF twinned /\ ~twin_panicked(twin) THEN insert(Call(twin), x) ELSE twin
    /\ UNCHANGED twinned

TwinPop ==
    /\ Budget /\ PopStep
    /\ twin' = IF twinned /\ ~twin_panicked(twin) THEN pop(Call(twin)) ELSE twin
    /\ UNCHANGED twinned

TwinPeek ==
    /\ Budget /\ PeekStep
    /\ twin' = IF twinned /\ ~twin_panicked(twin) THEN peek(Call(twin)) ELSE twin
    /\ UNCHANGED twinned

TwinClear ==
    /\ Budget /\ ClearStep
    /\ twinned' = TRUE
    /\ \E f \in Values :
         twin' = [clear(Self) EXCEPT !.data = [p \in DOMAIN data |-> f]]

NextTwin ==
    \/ \E x \in Values : TwinInsert(x)
    \/ TwinPop
    \/ TwinPeek
    \/ TwinClear

SpecTwin == Init /\ [][NextTwin]_vars

TypeOK ==
    /\ data \in [0..(data_len(Self) - 1) -> Values]
    /\ start \in Nat /\ end \in Nat /\ len \in Nat

\* ---- helpers of the properties ------------------------------------------
capacity == data_len(Self)

\* the live window, logical index 0 first
window == [i \in 1..len |-> get(Self, i - 1)]

SeqBag(s) == [v \in Values |-> Cardinality({i \in 1..Len(s) : s[i] = v})]

\* pop until pop returns None
RECURSIVE drain(_)
drain(h) ==
    LET r == pop(Call(h))
    IN  IF r.ret = None THEN <<>> ELSE <<r.ret[1]>> \o drain(r)

\* n inserts on a freshly constructed heap and no pop or clear
InsertsOnly(n) == mode = "ins" /\ Len(ins) = n

\* ---- C1 -----------------------------------------------------------------
\* C1: values inserted into a fresh heap (inserts only) come out of
\* pop-until-None in non-decreasing order: the popped sequence is the
\* sorted copy of the inserted one.
PopsSorted ==
    (mode = "drain" /\ op = "pop" /\ ret = None) => outs = ins

\* ---- C2 -----------------------------------------------------------------
\* C2: after any sequence of insert and pop calls the element at every
\* logical index i < len is <= the element at each child 2i+1, 2i+2 < len.
HeapProperty ==
    ~panicked =>
        \A i \in 0..(len - 1) :
            \A c \in {left_child_idx(i), right_child_idx(i)} :
                c < len => data[(start + i) % capacity] <= data[(start + c) % capacity]

\* ---- C3 -----------------------------------------------------------------
\* C3: whenever len > 0 the element at logical index 0 is the smallest live
\* element, and is <= every value inserted and not yet popped.
RootIsMin ==
    (~panicked /\ len > 0) =>
        /\ \A i \in 1..len : data[start] <= window[i]
        /\ \A v \in Values : live[v] > 0 => data[start] <= v

\* ---- C4 -----------------------------------------------------------------
\* C4: popping until empty returns exactly the multiset of values inserted
\* and not yet popped (k - j values after k inserts and j pops).
CountConservation ==
    ~panicked => SeqBag(drain(Self)) = live

\* ---- C5 -----------------------------------------------------------------
\* C5: no public operation reaches an internal contract violation: get(i)
\* is only called with i < len, parent_idx never at 0, and every storage
\* access is inside the storage.
NoContractViolation == viol = "none"

\* ---- C6 -----------------------------------------------------------------
\* C6: with len = 0, pop and peek return None and change nothing.
EmptyPopPeekNoop ==
    [][(len = 0 /\ op' \in {"pop", "peek"}) =>
          (ret' = None /\ data' = data /\ start' = start /\ end' = end /\ len' = len)]_vars

EmptyPopWitness ==
    op = "pop" /\ ret = None /\ len = 0 /\ start > 0 /\ capacity >= 4

\* ---- C7 -----------------------------------------------------------------
\* C7: clear sets start = end = len = 0 and leaves storage and capacity
\* as they were; a pop right after clear returns None.
ClearResets ==
    [][/\ op' = "clear" => (start' = 0 /\ end' = 0 /\ len' = 0 /\ data' = data)
       /\ (op = "clear" /\ op' = "pop") => ret' = None]_vars

ClearWitness ==
    /\ op = "clear" /\ capacity >= 4
    /\ \E p, q \in DOMAIN data : data[p] # data[q]

\* ---- C8 -----------------------------------------------------------------
\* C8: after clear, the results of pop are those of an empty heap of the
\* same capacity, whatever stale values clear left in storage.
ClearedAsFresh ==
    (twinned /\ op = "pop") => ret = twin.ret

\* ---- C9 -----------------------------------------------------------------
\* C9 as written: a fresh heap has capacity 1 and the capacities are
\* 1, 2, 4, 8, ...; after 7 insertions capacity is 8 and len is 7.
CapacityFromOne ==
    /\ InsertsOnly(0) => capacity = 1
    /\ capacity \in {2 ^ k : k \in 0..MaxCap}
    /\ InsertsOnly(7) => (capacity = 8 /\ len = 7)

\* C9 amended: a fresh heap has capacity (storage length) 0; capacity
\* changes only inside insert, each time to max(2, 2 * old capacity), so it
\* runs 0, 2, 4, 8, ... and never shrinks; after 7 insertions from fresh
\* capacity is 8 and len is 7.
CapacitySchedule ==
    /\ [](InsertsOnly(0) => capacity = 0)
    /\ [](InsertsOnly(7) => (capacity = 8 /\ len = 7))
    /\ [][capacity' # capacity =>
            /\ op' = "insert"
            /\ capacity' = (IF 2 * capacity > 2 THEN 2 * capacity ELSE 2)
            /\ capacity' > capacity]_vars

SevenInsertsWitness == InsertsOnly(7) /\ capacity = 8 /\ len = 7

\* ---- C10 ----------------------------------------------------------------
\* C10 as written: len < capacity in every reachable state.
LenBelowCapacity == len < capacity

\* C10 amended: a fresh heap has len = capacity = 0; once capacity is not 0
\* (from the first insert on) len < capacity, so one slot is always free.
LenBelowCapacityOnceGrown ==
    IF capacity = 0 THEN len = 0 /\ op # "insert" ELSE len < capacity

FullButOneWitness == op = "insert" /\ len = 7 /\ capacity = 8 /\ start > 0
\* ---- C11 ----------------------------------------------------------------
\* C11: when insert grows the buffer while the live window wraps
\* (start > end), grow leaves len and every logical element as they were,
\* end is still (start + len) mod capacity under the new start and
\* capacity, and the pops that follow return the same values.
GrowTransparentUnderWrap ==
    \A x \in Values :
        (capacity > 0 /\ len + 1 >= capacity /\ start > end) =>
            LET g == grow(Self, x)
            IN  /\ g.len = len
                /\ \A i \in 0..(len - 1) : get(g, i) = get(Self, i)
                /\ g.end = (g.start + g.len) % data_len(g)
                /\ data_len(g) = 2 * capacity
                /\ drain(g) = drain(Self)

\* a full-but-one wrapped window of three elements that grow relocates
GrowWrappedWitness ==
    /\ len + 1 >= capacity /\ start > end /\ len >= 3
    /\ \E i, j \in 1..len : window[i] # window[j]
    /\ grow(Self, 1).start = start + capacity
\* ---- C12 ----------------------------------------------------------------
\* the heap property over the live window of h
HeapOrdered(h) ==
    \A i \in 0..(h.len - 1) :
        \A c \in {left_child_idx(i), right_child_idx(i)} :
            c < h.len => get(h, i) <= get(h, c)

\* the value an insert step inserted
InsertedValue == CHOOSE v \in Values : live' = BagAdd(live, v)

\* C12: whatever start is, an insert(x) that returns on a heap whose heap
\* property holds leaves the heap property holding and the root equal to
\* min(old root, x).
InsertRestoresHeap ==
    [][(op' = "insert" /\ HeapOrdered(Self) /\ ~panicked') =>
          /\ HeapOrdered(Self)'
          /\ data'[start'] = IF len > 0 /\ data[start] < InsertedValue
                             THEN data[start] ELSE InsertedValue]_vars
\* ---- C13 ----------------------------------------------------------------
\* C13: pop on a non-empty heap returns the element at the old physical
\* offset start, sets start to (start + 1) mod capacity and len to len - 1,
\* and leaves end, capacity and the old root slot as they were.
PopAdvancesStart ==
    [][(op' = "pop" /\ len > 0) =>
          /\ ret' = Some(data[start])
          /\ start' = (start + 1) % capacity
          /\ len' = len - 1
          /\ end' = end
          /\ capacity' = capacity
          /\ data'[start] = data[start]]_vars

\* a pop that wrapped start from capacity - 1 to 0 with elements left
PopWrapWitness ==
    op = "pop" /\ ret # None /\ start = 0 /\ len > 0 /\ capacity >= 4
\* ---- C14 ----------------------------------------------------------------
\* the child the stated policy swaps with, at a node with value c whose
\* children (where they exist) hold l and r
SiftChoice(c, hasL, l, hasR, r) ==
    IF ~hasL THEN "stop"
    ELSE IF ~hasR THEN (IF c > l THEN "left" ELSE "stop")
    ELSE IF l > r /\ c > r THEN "right"
    ELSE IF r > l /\ c > l THEN "left"
    ELSE "stop"

\* the stated policy run on a window w (logical index i is w[i + 1])
RECURSIVE SiftDownPolicy(_, _)
SiftDownPolicy(w, i) ==
    LET li == 2 * i + 1
        ri == 2 * i + 2
        hasL == li < Len(w)
        hasR == ri < Len(w)
        ch == SiftChoice(w[i + 1], hasL, IF hasL THEN w[li + 1] ELSE 0,
                         hasR, IF hasR THEN w[ri + 1] ELSE 0)
        j == IF ch = "left" THEN li ELSE ri
    IN  IF ch = "stop" THEN w
        ELSE SiftDownPolicy([w EXCEPT ![i + 1] = w[j + 1], ![j + 1] = w[i + 1]], j)

\* C14: the sift-down a pop runs follows the stated policy exactly: one
\* child, swap iff c > l; two children, swap with r iff l > r and c > r,
\* else with l iff r > l and c > l, else stop (so no swap when l = r);
\* after a swap it continues from that child.
SiftDownFollowsPolicy ==
    [][(op' = "pop" /\ len > 1) =>
          (window)' = SiftDownPolicy(Tail(window), 0)]_vars

\* after a pop the root is greater than its two equal children: the tie
\* case, in which no swap was made
TieNoSwapWitness ==
    op = "pop" /\ ret # None /\ len >= 3 /\ window[1] > window[2] /\ window[2] = window[3]
\* ---- C15 ----------------------------------------------------------------
\* C15: peek changes no field, and returns what a pop made at that point
\* returns (Some of the element at logical 0, or None when len = 0); a pop
\* that follows a peek directly returns the peeked value.
PeekIsPureAndAgreesWithPop ==
    [][/\ op' = "peek" =>
            /\ data' = data /\ start' = start /\ end' = end /\ len' = len
            /\ ret' = pop(Self).ret
            /\ ret' = IF len > 0 THEN Some(window[1]) ELSE None
       /\ (op = "peek" /\ op' = "pop") => ret' = ret]_vars

PeekWitness ==
    op = "peek" /\ ret # None /\ start > 0 /\ len >= 2 /\ data[0] # data[start]
\* ---- C16 ----------------------------------------------------------------
RECURSIVE Log2Floor(_)
Log2Floor(n) == IF n <= 1 THEN 0 ELSE 1 + Log2Floor(n \div 2)

\* C16: every insert and every pop runs to completion: no abort, and the
\* sift it starts makes at most floor(log2(len)) + 1 swaps.
RunsToCompletion ==
    [][/\ op' = "insert" =>
            /\ ~panicked'
            /\ insert(Self, InsertedValue).swaps <= Log2Floor(len') + 1
       /\ (op' = "pop" /\ len > 0) =>
            /\ ~panicked'
            /\ pop(Self).swaps <= Log2Floor(len) + 1]_vars
\* ---- C17 ----------------------------------------------------------------
\* C17: once an insert has been made (capacity > 0) the ring window is
\* well-formed in every state: start < capacity, end < capacity and
\* end = (start + len) mod capacity; before that all three fields are 0.
RingWindowWellFormed ==
    IF capacity = 0
    THEN start = 0 /\ end = 0 /\ len = 0
    ELSE /\ start < capacity
         /\ end < capacity
         /\ end = (start + len) % capacity

\* a window that wraps past the physical end of the buffer after an insert
WrappedWindowWitness ==
    op = "insert" /\ capacity >= 4 /\ start > end /\ end > 0 /\ len >= 2
\* ---- C18 ----------------------------------------------------------------
\* the smallest value inserted and not yet popped
MinLive ==
    CHOOSE v \in Values : live[v] > 0 /\ \A u \in Values : live[u] > 0 => v <= u

\* C18: while only inserts have been made since new() or clear() (fill),
\* start is 0, no contract is violated, the heap property holds, the
\* window holds exactly the inserted values and peek returns their minimum,
\* across every growth step.
InsertOnlyKeepsHeap ==
    fill =>
        /\ start = 0 /\ end = len
        /\ viol = "none"
        /\ HeapOrdered(Self)
        /\ SeqBag(window) = live
        /\ peek(Self).ret = IF len > 0 THEN Some(MinLive) ELSE None

\* five inserts after a clear, through the growths 2 -> 4 -> 8
InsertOnlyWitness ==
    /\ fill /\ mode = "mixed" /\ op = "insert"
    /\ capacity = 8 /\ len >= 5
    /\ window[len] = 1 /\ \E i \in 1..len : window[i] > 1
\* ---- C19 ----------------------------------------------------------------
\* the physical offsets of the live window of h
window_slots(h) == {real_idx(h, i) : i \in 0..(h.len - 1)}

\* C19: a successful pop leaves in the window exactly the elements that
\* were there, minus the one it returns, and writes no slot outside the
\* new window.
PopStaysInWindow ==
    [][(op' = "pop" /\ len > 0) =>
          /\ ret' # None
          /\ (SeqBag(window))' = BagDel(SeqBag(window), ret'[1])
          /\ \A p \in DOMAIN data :
                p \notin (window_slots(Self))' => data'[p] = data[p]]_vars

\* after a pop, the slot just past the window holds a value smaller than
\* the root: a sift-down reading one slot too far would pull it in
PopBoundaryWitness ==
    op = "pop" /\ ret # None /\ len >= 2 /\ data[end] < window[1]
====
